---- MODULE Spec2Model ----
(***************************************************************************)
(* Stock ledger of services/stock_service (StockService): the stock        *)
(* aggregate per (sku, warehouse), its batch details, the lock records     *)
(* and the movement ledger, with the five mutating handlers stock_in,      *)
(* stock_out, lock_stock, unlock_stock and consume_locked_stock.           *)
(*                                                                         *)
(* Quantities are counted in units of the storage resolution of the        *)
(* DECIMAL(18,4) columns (one unit = 0.0001), unit costs likewise.          *)
(*                                                                         *)
(* A handler is an operator from the session's view of the database to a   *)
(* result [code, s, out]: the rows as the handler leaves them, the error   *)
(* code it raises ("OK" when it reaches db.commit()) and its response      *)
(* value.  Under Spec one handler runs at a time; under SpecConc           *)
(* lock_stock calls overlap: each reads its rows, and later flushes and    *)
(* commits what it computed from them.  SpecCost runs the handlers on one  *)
(* key with quantities and unit costs whose averages need rounding,         *)
(* SpecNotify runs them with a KafkaProducer injected, and under SpecPar   *)
(* calls of any two handlers overlap.                                      *)
(***************************************************************************)
EXTENDS Integers, Sequences, FiniteSets, TLC

\* ---------------------------------------------------------------- bounds
MaxQty     == 2     \* item quantities range over 1..MaxQty
MaxCost    == 1     \* unit costs range over 1..MaxCost
MaxItems   == 2     \* items per request
MaxBatches == 2     \* rows of stock_detail
MaxLocks   == 2     \* rows of stock_lock
MaxMoves   == 4     \* rows of stock_move
MaxMovesConc == 5   \* rows of stock_move under SpecConc
MaxMovesCost == 3   \* rows of stock_move under SpecCost
MaxMovesNotify == 3 \* rows of stock_move under SpecNotify
MaxSent    == 3     \* events passed to kafka.send under SpecNotify
MaxQtyPar  == 1     \* received quantities range over 1..MaxQtyPar under SpecPar
MaxBatchesPar == 3  \* rows of stock_detail under SpecPar
MaxMovesPar == 4    \* rows of stock_move under SpecPar

Skus       == {"A", "B"}
Warehouses == {1}
Sources    == {"O1", "O2"}
Keys       == Skus \X Warehouses

\* an absent batch_no (None)
None == <<>>
\* an absent source_order_no (None or "", both falsy)
NoSource == ""
\* batch numbers a caller names in StockInItem.batch_no / StockOutItem.batch_no
UserBatchNos == {<<"b", 1>>}

\* ------------------------------------------------------------ the tables
VARIABLES
    stock,      \* table stock: Keys -> row (exists = FALSE: no row yet)
    details,    \* table stock_detail, in insertion (created_at) order
    locks,      \* table stock_lock; lock_no of a row is its position
    moves,      \* table stock_move, in insertion order
    lastOp,     \* the last handler call: [op, code, out]
    txn,        \* the open lock_stock calls of SpecConc
    kafka,      \* StockService.kafka: "none" (None) or "producer" (a KafkaProducer)
    sent,       \* the events the handlers have passed to kafka.send
    published   \* the events kafka.send has handed on to the broker

vars == <<stock, details, locks, moves, lastOp, txn, kafka, sent, published>>
notifications == <<kafka, sent, published>>
tables == <<stock, details, locks, moves>>

\* Stock(...) of get_or_create_stock, and the absent row
NoStock  == [exists |-> FALSE, qty |-> 0, locked_qty |-> 0, available_qty |-> 0, avg_cost |-> 0]
NewStock == [exists |-> TRUE,  qty |-> 0, locked_qty |-> 0, available_qty |-> 0, avg_cost |-> 0]

\* the session's view of the four tables
DB == [stock |-> stock, details |-> details, locks |-> locks, moves |-> moves]

Min(a, b) == IF a < b THEN a ELSE b

\* self.db.add(row): the session inserts the row into its table
db_add_replacesLast(rows, row) ==
    IF rows = <<>> THEN <<row>> ELSE [rows EXCEPT ![Len(rows)] = row]
db_add(rows, row) == Append(rows, row)

\* a / b stored into a DECIMAL(18,4) column: rounded half up to one unit
RoundDiv(a, b) == (2 * a + b) \div (2 * b)

\* -------------------------------------------------------------- get_stock
get_stock(s, sku_id, warehouse_id) == s.stock[<<sku_id, warehouse_id>>]

get_or_create_stock(s, sku_id, warehouse_id) ==
    IF get_stock(s, sku_id, warehouse_id).exists
    THEN get_stock(s, sku_id, warehouse_id)
    ELSE NewStock

\* stock.available_qty = stock.qty - stock.locked_qty
AvailableQty_forgetLocked(qty, locked_qty) == qty
AvailableQty(qty, locked_qty) == qty - locked_qty

\* generate_batch_no(): a fresh batch number
generate_batch_no(s) == <<"BN", Len(s.details) + 1>>

\* --------------------------------------------------------------- stock_in
RECURSIVE SumTo(_, _)
\* f[1] + ... + f[n]
SumTo(f, n) == IF n = 0 THEN 0 ELSE f[n] + SumTo(f, n - 1)

\* what items 1..i of the request add to the quantity and to the value
\* (qty * unit_cost) of one sku
ItemsQty(req, i, sku_id) ==
    SumTo([j \in 1..i |-> IF req.items[j].sku_id = sku_id THEN req.items[j].qty ELSE 0], i)
ItemsValue(req, i, sku_id) ==
    SumTo([j \in 1..i |-> IF req.items[j].sku_id = sku_id
                           THEN req.items[j].qty * req.items[j].unit_cost ELSE 0], i)

\* The moving weighted average of stock_in after item i.  read is the row as
\* the session loaded it.  Within the session avg_cost is an unrounded
\* Decimal, so stock.qty * stock.avg_cost is the value of the row read plus
\* the value of the items already received; the quotient is rounded once,
\* when the row is stored in the DECIMAL(18,4) column.
MovingAvgCost_lastCost(read, req, i) == req.items[i].unit_cost
MovingAvgCost(read, req, i) ==
    LET sku_id      == req.items[i].sku_id
        new_qty     == read.qty + ItemsQty(req, i, sku_id)
        total_value == read.qty * read.avg_cost + ItemsValue(req, i, sku_id)
    IN  IF new_qty > 0 THEN RoundDiv(total_value, new_qty) ELSE read.avg_cost

\* one iteration of the loop over request.items; s0 is the database when the
\* call began
stock_in_item(s0, s, req, i) ==
    LET item      == req.items[i]
        k         == <<item.sku_id, req.warehouse_id>>
        st        == get_or_create_stock(s, item.sku_id, req.warehouse_id)
        read      == get_or_create_stock(s0, item.sku_id, req.warehouse_id)
        before    == st.qty
        newQty    == st.qty + item.qty
        st2       == [st EXCEPT !.avg_cost = MovingAvgCost(read, req, i),
                                !.qty = newQty,
                                !.available_qty = AvailableQty(newQty, st.locked_qty)]
        batch_no  == IF item.batch_no # None THEN item.batch_no ELSE generate_batch_no(s)
        detail    == [sku_id |-> item.sku_id, warehouse_id |-> req.warehouse_id,
                      batch_no |-> batch_no, qty |-> item.qty, locked_qty |-> 0,
                      unit_cost |-> item.unit_cost]
        move      == [sku_id |-> item.sku_id, warehouse_id |-> req.warehouse_id,
                      move_type |-> "IN", qty |-> item.qty,
                      before_qty |-> before, after_qty |-> newQty,
                      unit_cost |-> item.unit_cost,
                      source_order_no |-> req.source_order_no, batch_no |-> batch_no]
    IN  [s EXCEPT !.stock[k] = st2,
                  !.details = db_add(@, detail),
                  !.moves = db_add(@, move)]

RECURSIVE stock_in_items(_, _, _, _)
stock_in_items(s0, s, req, i) ==
    IF i > Len(req.items) THEN s
    ELSE stock_in_items(s0, stock_in_item(s0, s, req, i), req, i + 1)

stock_in(s, req) == [code |-> "OK", s |-> stock_in_items(s, s, req, 1), out |-> 0]

\* ------------------------------------------------- _get_available_details
\* positions of the key's batches with qty > 0 (of the named batch when
\* batch_no is given), ordered by created_at
IsCandidate_anyBatch(d, sku_id, warehouse_id, batch_no) ==
    /\ d.sku_id = sku_id
    /\ d.warehouse_id = warehouse_id
    /\ d.qty > 0
IsCandidate(d, sku_id, warehouse_id, batch_no) ==
    /\ d.sku_id = sku_id
    /\ d.warehouse_id = warehouse_id
    /\ d.qty > 0
    /\ (batch_no # None => d.batch_no = batch_no)

Reverse(seq) == [i \in 1..Len(seq) |-> seq[Len(seq) + 1 - i]]

_get_available_details_newestFirst(s, sku_id, warehouse_id, batch_no) ==
    Reverse(SelectSeq([i \in 1..Len(s.details) |-> i],
                      LAMBDA i : IsCandidate(s.details[i], sku_id, warehouse_id, batch_no)))
_get_available_details(s, sku_id, warehouse_id, batch_no) ==
    SelectSeq([i \in 1..Len(s.details) |-> i],
              LAMBDA i : IsCandidate(s.details[i], sku_id, warehouse_id, batch_no))

\* -------------------------------------------------------------- stock_out
\* available = detail.qty - detail.locked_qty; deduct_qty = min(available, remaining_qty)
StockOutDeduct_none(detail, remaining_qty) == 0
StockOutDeduct(detail, remaining_qty) == Min(detail.qty - detail.locked_qty, remaining_qty)

\* out_cost += deduct_qty * detail.unit_cost
BatchCost_wholeBatch(detail, deduct_qty) == detail.qty * detail.unit_cost
BatchCost(detail, deduct_qty) == deduct_qty * detail.unit_cost

\* the FIFO walk of stock_out over the candidate positions cand[j..]
RECURSIVE StockOutWalk(_, _, _, _, _)
StockOutWalk(ds, cand, j, remaining_qty, out_cost) ==
    IF j > Len(cand) \/ remaining_qty <= 0
    THEN [details |-> ds, remaining_qty |-> remaining_qty, out_cost |-> out_cost]
    ELSE LET detail     == ds[cand[j]]
             deduct_qty == StockOutDeduct(detail, remaining_qty)
         IN  StockOutWalk([ds EXCEPT ![cand[j]].qty = @ - deduct_qty], cand, j + 1,
                          remaining_qty - deduct_qty,
                          out_cost + BatchCost(detail, deduct_qty))

\* if stock.available_qty < item.qty: raise INSUFFICIENT_STOCK
InsufficientStock_ignoreLocked(st, item) == st.qty < item.qty
InsufficientStock_never(st, item) == FALSE
InsufficientStock(st, item) == st.available_qty < item.qty

\* if remaining_qty > 0: raise INSUFFICIENT_BATCH_STOCK
InsufficientBatchStock(remaining_qty) == remaining_qty > 0

\* stock.qty -= item.qty; stock.available_qty = stock.qty - stock.locked_qty
\* (the only columns stock_out assigns)
StockOutRow_recost(st, qty) ==
    [st EXCEPT !.qty = st.qty - qty,
               !.available_qty = (st.qty - qty) - st.locked_qty,
               !.avg_cost = IF st.qty - qty = 0 THEN 0 ELSE st.avg_cost]
StockOutRow(st, qty) ==
    [st EXCEPT !.qty = st.qty - qty,
               !.available_qty = AvailableQty(st.qty - qty, st.locked_qty)]

\* one iteration of the loop over request.items; code # "OK" is the raise
stock_out_item(s, req, item) ==
    LET k    == <<item.sku_id, req.warehouse_id>>
        st   == get_stock(s, item.sku_id, req.warehouse_id)
        cand == _get_available_details(s, item.sku_id, req.warehouse_id, item.batch_no)
        w    == StockOutWalk(s.details, cand, 1, item.qty, 0)
        newQty == st.qty - item.qty
        st2  == StockOutRow(st, item.qty)
        move == [sku_id |-> item.sku_id, warehouse_id |-> req.warehouse_id,
                 move_type |-> "OUT", qty |-> item.qty,
                 before_qty |-> st.qty, after_qty |-> newQty,
                 unit_cost |-> RoundDiv(w.out_cost, item.qty),
                 source_order_no |-> req.source_order_no, batch_no |-> item.batch_no]
    IN  IF ~st.exists THEN [code |-> "STOCK_NOT_FOUND", s |-> s, out |-> 0]
        ELSE IF InsufficientStock(st, item)
        THEN [code |-> "INSUFFICIENT_STOCK", s |-> s, out |-> 0]
        ELSE IF InsufficientBatchStock(w.remaining_qty)
        THEN [code |-> "INSUFFICIENT_BATCH_STOCK",
              s |-> [s EXCEPT !.details = w.details], out |-> 0]
        ELSE [code |-> "OK",
              s |-> [s EXCEPT !.stock[k] = st2,
                              !.details = w.details,
                              !.moves = db_add(@, move)],
              out |-> w.out_cost]

RECURSIVE stock_out_items(_, _, _, _)
stock_out_items(s, req, i, total_cost) ==
    IF i > Len(req.items) THEN [code |-> "OK", s |-> s, out |-> total_cost]
    ELSE LET r == stock_out_item(s, req, req.items[i])
         IN  IF r.code # "OK" THEN r
             ELSE stock_out_items(r.s, req, i + 1, total_cost + r.out)

stock_out(s, req) == stock_out_items(s, req, 1, 0)

\* ------------------------------------------------------------- lock_stock
\* if stock.available_qty < item.qty: raise INSUFFICIENT_AVAILABLE_STOCK
InsufficientAvailableStock_never(st, item) == FALSE
InsufficientAvailableStock(st, item) == st.available_qty < item.qty

\* stock.locked_qty += item.qty; stock.available_qty = stock.qty - stock.locked_qty
LockRow_takesOnHand(st, qty) ==
    [st EXCEPT !.qty = st.qty - qty,
               !.available_qty = (st.qty - qty) - st.locked_qty]
LockRow(st, qty) ==
    [st EXCEPT !.locked_qty = st.locked_qty + qty,
               !.available_qty = AvailableQty(st.qty, st.locked_qty + qty)]

lock_stock_item(s, req, item) ==
    LET k    == <<item.sku_id, req.warehouse_id>>
        st   == get_stock(s, item.sku_id, req.warehouse_id)
        newLocked == st.locked_qty + item.qty
        st2  == LockRow(st, item.qty)
        lock_record == [sku_id |-> item.sku_id, warehouse_id |-> req.warehouse_id,
                        locked_qty |-> item.qty, status |-> "LOCKED",
                        source_order_no |-> req.source_order_no]
        move == [sku_id |-> item.sku_id, warehouse_id |-> req.warehouse_id,
                 move_type |-> "LOCK", qty |-> item.qty,
                 before_qty |-> st.locked_qty, after_qty |-> newLocked,
                 unit_cost |-> 0,
                 source_order_no |-> req.source_order_no, batch_no |-> None]
    IN  IF ~st.exists THEN [code |-> "STOCK_NOT_FOUND", s |-> s, out |-> 0]
        ELSE IF InsufficientAvailableStock(st, item)
        THEN [code |-> "INSUFFICIENT_AVAILABLE_STOCK", s |-> s, out |-> 0]
        ELSE [code |-> "OK",
              s |-> [s EXCEPT !.stock[k] = st2,
                              !.locks = db_add(@, lock_record),
                              !.moves = db_add(@, move)],
              out |-> 0]

RECURSIVE lock_stock_items(_, _, _)
lock_stock_items(s, req, i) ==
    IF i > Len(req.items) THEN [code |-> "OK", s |-> s, out |-> 0]
    ELSE LET r == lock_stock_item(s, req, req.items[i])
         IN  IF r.code # "OK" THEN r ELSE lock_stock_items(r.s, req, i + 1)

lock_stock(s, req) == lock_stock_items(s, req, 1)

\* ----------------------------------------------------------- unlock_stock
\* select(StockLock).where(status == "LOCKED") narrowed by lock_nos, else
\* by source_order_no: the positions of the matching lock records
UnlockQuery_anyStatus(s, req) ==
    SelectSeq([i \in 1..Len(s.locks) |-> i],
              LAMBDA i : IF req.lock_nos # {} THEN i \in req.lock_nos
                         ELSE s.locks[i].source_order_no = req.source_order_no)
UnlockQuery(s, req) ==
    SelectSeq([i \in 1..Len(s.locks) |-> i],
              LAMBDA i : /\ s.locks[i].status = "LOCKED"
                         /\ IF req.lock_nos # {} THEN i \in req.lock_nos
                            ELSE s.locks[i].source_order_no = req.source_order_no)

unlock_record(s, i) ==
    LET lock_record == s.locks[i]
        k    == <<lock_record.sku_id, lock_record.warehouse_id>>
        st   == get_stock(s, lock_record.sku_id, lock_record.warehouse_id)
        newLocked == st.locked_qty - lock_record.locked_qty
        st2  == [st EXCEPT !.locked_qty = newLocked,
                           !.available_qty = AvailableQty(st.qty, newLocked)]
        move == [sku_id |-> lock_record.sku_id, warehouse_id |-> lock_record.warehouse_id,
                 move_type |-> "UNLOCK", qty |-> lock_record.locked_qty,
                 before_qty |-> st.locked_qty, after_qty |-> newLocked,
                 unit_cost |-> 0,
                 source_order_no |-> lock_record.source_order_no, batch_no |-> None]
        s2   == IF st.exists
                THEN [s EXCEPT !.stock[k] = st2, !.moves = db_add(@, move)]
                ELSE s
    IN  [s2 EXCEPT !.locks[i].status = "UNLOCKED"]

RECURSIVE unlock_records(_, _, _)
unlock_records(s, recs, j) ==
    IF j > Len(recs) THEN s
    ELSE unlock_records(unlock_record(s, recs[j]), recs, j + 1)

\* if not lock_records: raise LOCK_NOT_FOUND
UnlockNotFound_never(lock_records) == FALSE
UnlockNotFound(lock_records) == Len(lock_records) = 0

unlock_stock(s, req) ==
    IF req.lock_nos = {} /\ req.source_order_no = NoSource
    THEN [code |-> "INVALID_REQUEST", s |-> s, out |-> 0]
    ELSE LET lock_records == UnlockQuery(s, req)
         IN  IF UnlockNotFound(lock_records)
             THEN [code |-> "LOCK_NOT_FOUND", s |-> s, out |-> 0]
             ELSE [code |-> "OK", s |-> unlock_records(s, lock_records, 1),
                   out |-> Len(lock_records)]

\* --------------------------------------------------- consume_locked_stock
ConsumeQuery_anyStatus(s, source_order_no) ==
    SelectSeq([i \in 1..Len(s.locks) |-> i],
              LAMBDA i : s.locks[i].source_order_no = source_order_no)
ConsumeQuery(s, source_order_no) ==
    SelectSeq([i \in 1..Len(s.locks) |-> i],
              LAMBDA i : /\ s.locks[i].source_order_no = source_order_no
                         /\ s.locks[i].status = "LOCKED")

\* deduct_qty = min(detail.qty, remaining_qty)
ConsumeDeduct_none(detail, remaining_qty) == 0
ConsumeDeduct(detail, remaining_qty) == Min(detail.qty, remaining_qty)

RECURSIVE ConsumeWalk(_, _, _, _, _)
ConsumeWalk(ds, cand, j, remaining_qty, out_cost) ==
    IF j > Len(cand) \/ remaining_qty <= 0
    THEN [details |-> ds, remaining_qty |-> remaining_qty, out_cost |-> out_cost]
    ELSE LET detail     == ds[cand[j]]
             deduct_qty == ConsumeDeduct(detail, remaining_qty)
         IN  ConsumeWalk([ds EXCEPT ![cand[j]].qty = @ - deduct_qty], cand, j + 1,
                         remaining_qty - deduct_qty,
                         out_cost + BatchCost(detail, deduct_qty))

\* stock.qty -= lock_record.locked_qty; stock.locked_qty -= lock_record.locked_qty;
\* stock.available_qty = stock.qty - stock.locked_qty
ConsumeRow_keepsLocked(st, locked_qty) ==
    [st EXCEPT !.qty = st.qty - locked_qty,
               !.available_qty = (st.qty - locked_qty) - st.locked_qty]
ConsumeRow(st, locked_qty) ==
    [st EXCEPT !.qty = st.qty - locked_qty,
               !.locked_qty = st.locked_qty - locked_qty,
               !.available_qty = AvailableQty(st.qty - locked_qty, st.locked_qty - locked_qty)]

\* one iteration of the loop over lock_records
consume_record(s, i, source_order_no) ==
    LET lock_record == s.locks[i]
        k    == <<lock_record.sku_id, lock_record.warehouse_id>>
        st   == get_stock(s, lock_record.sku_id, lock_record.warehouse_id)
        cand == _get_available_details(s, lock_record.sku_id, lock_record.warehouse_id, None)
        w    == ConsumeWalk(s.details, cand, 1, lock_record.locked_qty, 0)
        newQty    == st.qty - lock_record.locked_qty
        newLocked == st.locked_qty - lock_record.locked_qty
        st2  == ConsumeRow(st, lock_record.locked_qty)
        move == [sku_id |-> lock_record.sku_id, warehouse_id |-> lock_record.warehouse_id,
                 move_type |-> "OUT", qty |-> lock_record.locked_qty,
                 before_qty |-> st.qty, after_qty |-> newQty,
                 unit_cost |-> RoundDiv(w.out_cost, lock_record.locked_qty),
                 source_order_no |-> source_order_no, batch_no |-> None]
    IN  IF ~st.exists THEN [s |-> s, out |-> 0]
        ELSE [s |-> [s EXCEPT !.stock[k] = st2,
                              !.details = w.details,
                              !.moves = db_add(@, move),
                              !.locks[i].status = "CONSUMED"],
              out |-> w.out_cost]

RECURSIVE consume_records(_, _, _, _, _)
consume_records(s, recs, j, source_order_no, total_cost) ==
    IF j > Len(recs) THEN [code |-> "OK", s |-> s, out |-> total_cost]
    ELSE LET r == consume_record(s, recs[j], source_order_no)
         IN  consume_records(r.s, recs, j + 1, source_order_no, total_cost + r.out)

\* if not lock_records: raise LOCK_NOT_FOUND
ConsumeNotFound_never(lock_records) == FALSE
ConsumeNotFound(lock_records) == Len(lock_records) = 0

consume_locked_stock(s, source_order_no) ==
    LET lock_records == ConsumeQuery(s, source_order_no)
    IN  IF ConsumeNotFound(lock_records)
        THEN [code |-> "LOCK_NOT_FOUND", s |-> s, out |-> 0]
        ELSE consume_records(s, lock_records, 1, source_order_no, 0)

\* =========================================================== the requests
SeqsUpTo(S, n) == UNION { [1..m -> S] : m \in 1..n }

StockInItems  == [sku_id : Skus, qty : 1..MaxQty, unit_cost : 1..MaxCost,
                  batch_no : UserBatchNos \cup {None}]
StockOutItems == [sku_id : Skus, qty : 1..MaxQty, batch_no : UserBatchNos \cup {None}]
StockLockItems == [sku_id : Skus, qty : 1..MaxQty]

StockInRequests  == [warehouse_id : Warehouses, source_order_no : {"P1"},
                     items : SeqsUpTo(StockInItems, MaxItems)]
StockOutRequests == [warehouse_id : Warehouses, source_order_no : {"S1"},
                     items : SeqsUpTo(StockOutItems, MaxItems)]
StockLockRequests == [warehouse_id : Warehouses, source_order_no : Sources,
                      items : SeqsUpTo(StockLockItems, MaxItems)]
\* lock_nos: Optional[List[str]] (None and [] both count as absent),
\* MaxLocks + 1 being a lock number no record has
StockUnlockRequests == [lock_nos : SUBSET (1..(MaxLocks + 1)),
                        source_order_no : Sources \cup {NoSource}]

\* ============================================================ the actions
Procs == {1, 2}
Idle  == [active |-> FALSE, req |-> None, snap |-> None]

Init ==
    /\ stock = [k \in Keys |-> NoStock]
    /\ details = <<>>
    /\ locks = <<>>
    /\ moves = <<>>
    /\ lastOp = [op |-> "none", code |-> "OK", out |-> 0]
    /\ txn = [p \in Procs |-> Idle]
    /\ kafka = "none"
    /\ sent = <<>>
    /\ published = <<>>

Bounded(s, maxMoves) ==
    /\ Len(s.details) <= MaxBatches
    /\ Len(s.locks) <= MaxLocks
    /\ Len(s.moves) <= maxMoves

\* The end of a handler: `await self.db.commit()` makes the session's rows the
\* tables; a raise before it leaves the session uncommitted, and the tables
\* as they were.
commit_keepOnRaise(cur, r) == r.s
commit(cur, r) == IF r.code = "OK" THEN r.s ELSE cur

\* ------------------------------------------------- _publish_stock_event
\* StockChangedEvent(...) of the movement the handler has just added
StockChangedEvent(move) ==
    [sku_id |-> move.sku_id, warehouse_id |-> move.warehouse_id,
     move_type |-> move.move_type, qty |-> move.qty,
     before_qty |-> move.before_qty, after_qty |-> move.after_qty,
     source_order_no |-> move.source_order_no]

\* the handlers whose loop calls _publish_stock_event
Publishers == {"stock_in", "stock_out", "consume_locked_stock"}

\* The events of the _publish_stock_event calls of one handler call, in
\* order: stock_in, stock_out and consume_locked_stock call it once per
\* iteration, right after adding the iteration's movement row and with that
\* row's values, before db.commit(); an iteration that raises has added no
\* row and made no call.  lock_stock and unlock_stock never call it.
PublishCalls(op, cur, r) ==
    IF op \in Publishers
    THEN [j \in 1..(Len(r.s.moves) - Len(cur.moves)) |->
              StockChangedEvent(r.s.moves[Len(cur.moves) + j])]
    ELSE <<>>

\* KafkaProducer.send(self, topic, event) and the call
\* self.kafka.send(topic=..., key=..., value=...): a keyword the signature
\* does not have is a TypeError, which _publish_stock_event catches
SendParameters == {"topic", "event"}
SendKeywords   == {"topic", "key", "value"}
SendAccepts    == SendKeywords \subseteq SendParameters

\* `if not self.kafka: return`, else the event is passed to kafka.send
Handed(calls) == IF kafka = "none" THEN <<>> ELSE calls
Delivered(calls) == IF kafka # "none" /\ SendAccepts THEN calls ELSE <<>>

\* `try: await self.kafka.send(...) except Exception as e: print(...)`: what
\* kafka.send raises is caught inside _publish_stock_event, which returns
\* normally; the handler goes on to the result r it was computing
AfterPublish_raises(r, calls) ==
    IF Len(Handed(calls)) > 0 /\ ~SendAccepts
    THEN [code |-> "TypeError", s |-> r.s, out |-> 0]
    ELSE r
AfterPublish(r, calls) == r

\* a handler run by one session alone
Finish(op, r0, maxMoves) ==
    LET calls == PublishCalls(op, DB, r0)
        r     == AfterPublish(r0, calls)
        c     == commit(DB, r)
    IN  /\ r.code = "OK" => Bounded(c, maxMoves)
        /\ stock'   = c.stock
        /\ details' = c.details
        /\ locks'   = c.locks
        /\ moves'   = c.moves
        /\ lastOp'  = [op |-> op, code |-> r.code, out |-> IF r.code = "OK" THEN r.out ELSE 0]
        /\ kafka'   = kafka
        /\ sent'    = sent \o Handed(calls)
        /\ published' = published \o Delivered(calls)

StockIn ==
    \E req \in StockInRequests :
        /\ Len(details) + Len(req.items) <= MaxBatches
        /\ Len(moves) + Len(req.items) <= MaxMoves
        /\ Finish("stock_in", stock_in(DB, req), MaxMoves)
        /\ UNCHANGED txn

StockOut ==
    \E req \in StockOutRequests :
        Finish("stock_out", stock_out(DB, req), MaxMoves) /\ UNCHANGED txn

LockStock ==
    \E req \in StockLockRequests :
        Finish("lock_stock", lock_stock(DB, req), MaxMoves) /\ UNCHANGED txn

UnlockStock ==
    \E req \in StockUnlockRequests :
        Finish("unlock_stock", unlock_stock(DB, req), MaxMoves) /\ UNCHANGED txn

ConsumeLocked ==
    \E source_order_no \in Sources :
        Finish("consume_locked_stock", consume_locked_stock(DB, source_order_no), MaxMoves)
        /\ UNCHANGED txn

Next == StockIn \/ StockOut \/ LockStock \/ UnlockStock \/ ConsumeLocked

Spec == Init /\ [][Next]_vars

\* ============================================== overlapping lock_stock calls
\* get_stock is a plain SELECT (no FOR UPDATE, no version column): the session
\* of each call keeps the rows it read.  db.commit() flushes the session: an
\* UPDATE sets the columns the handler changed to the values it computed from
\* the rows it read, and the new lock records and movement entries are
\* inserted.
FlushRow_wholeRow(cur, read, new) == new
FlushRow(cur, read, new) ==
    [c \in DOMAIN cur |-> IF new[c] # read[c] THEN new[c] ELSE cur[c]]

FlushRows(cur, read, new) ==
    [i \in 1..Len(cur) |-> IF i <= Len(read) THEN FlushRow(cur[i], read[i], new[i]) ELSE cur[i]]
    \o SubSeq(new, Len(read) + 1, Len(new))

Flush(cur, read, new) ==
    [stock   |-> [k \in Keys |-> FlushRow(cur.stock[k], read.stock[k], new.stock[k])],
     details |-> FlushRows(cur.details, read.details, new.details),
     locks   |-> FlushRows(cur.locks, read.locks, new.locks),
     moves   |-> FlushRows(cur.moves, read.moves, new.moves)]

\* the overlapping calls are made for different orders
SourceOf(p) == IF p = 1 THEN "O1" ELSE "O2"
NoneOpen == \A p \in Procs : ~txn[p].active

\* lock_stock up to its first get_stock: the session reads the tables
LockBegin(p) ==
    /\ ~txn[p].active
    /\ \E item \in StockLockItems, w \in Warehouses :
           txn' = [txn EXCEPT ![p] =
                      [active |-> TRUE,
                       req |-> [warehouse_id |-> w, source_order_no |-> SourceOf(p),
                                items |-> <<item>>],
                       snap |-> DB]]
    /\ UNCHANGED <<stock, details, locks, moves, lastOp, notifications>>

\* the rest of lock_stock: the checks and updates on the rows read, and
\* db.commit() (or the raise, which commits nothing)
LockCommit(p) ==
    /\ txn[p].active
    /\ LET r == lock_stock(txn[p].snap, txn[p].req)
           c == commit(DB, [r EXCEPT !.s = Flush(DB, txn[p].snap, r.s)])
       IN  /\ r.code = "OK" => Bounded(c, MaxMovesConc)
           /\ stock'   = c.stock
           /\ details' = c.details
           /\ locks'   = c.locks
           /\ moves'   = c.moves
           /\ lastOp'  = [op |-> "lock_stock", code |-> r.code, out |-> 0]
    /\ txn' = [txn EXCEPT ![p] = Idle]
    /\ UNCHANGED notifications

\* a receipt of one item, made while no lock_stock call is open
StockInAlone ==
    /\ NoneOpen
    /\ \E req \in {q \in StockInRequests :
                       Len(q.items) = 1 /\ q.items[1].batch_no = None} :
        /\ Len(details) + 1 <= MaxBatches
        /\ Finish("stock_in", stock_in(DB, req), MaxMovesConc)
        /\ UNCHANGED txn

\* consume_locked_stock, made while no lock_stock call is open
ConsumeLockedAlone ==
    /\ NoneOpen
    /\ \E source_order_no \in Sources :
        /\ Finish("consume_locked_stock", consume_locked_stock(DB, source_order_no),
                  MaxMovesConc)
        /\ UNCHANGED txn

NextConc ==
    \/ StockInAlone
    \/ \E p \in Procs : LockBegin(p)
    \/ \E p \in Procs : LockCommit(p)
    \/ ConsumeLockedAlone

SpecConc == Init /\ [][NextConc]_vars

\* ================================================ one key, costs that round
\* The handlers on the key ("A", 1) with quantities and unit costs for which
\* the moving average has more than four fractional digits (unit costs
\* 0.0000, 10.0000 and 16.0000 in units of 0.0001).
CostQtys      == {50, 100}
CostUnitCosts == {0, 100000, 160000}

CostInRequests ==
    [warehouse_id : Warehouses, source_order_no : {"P1"},
     items : SeqsUpTo([sku_id : {"A"}, qty : CostQtys, unit_cost : CostUnitCosts,
                       batch_no : {None}], MaxItems)]
CostOutRequests ==
    [warehouse_id : Warehouses, source_order_no : {"S1"},
     items : SeqsUpTo([sku_id : {"A"}, qty : CostQtys, batch_no : {None}], MaxItems)]
CostLockRequests ==
    [warehouse_id : Warehouses, source_order_no : Sources,
     items : SeqsUpTo([sku_id : {"A"}, qty : CostQtys], MaxItems)]
CostUnlockRequests == [lock_nos : {{}}, source_order_no : Sources]

CostStockIn ==
    \E req \in CostInRequests :
        /\ Len(details) + Len(req.items) <= MaxBatches
        /\ Finish("stock_in", stock_in(DB, req), MaxMovesCost)
        /\ UNCHANGED txn

CostStockOut ==
    \E req \in CostOutRequests :
        Finish("stock_out", stock_out(DB, req), MaxMovesCost) /\ UNCHANGED txn

CostLockStock ==
    \E req \in CostLockRequests :
        Finish("lock_stock", lock_stock(DB, req), MaxMovesCost) /\ UNCHANGED txn

CostUnlockStock ==
    \E req \in CostUnlockRequests :
        Finish("unlock_stock", unlock_stock(DB, req), MaxMovesCost) /\ UNCHANGED txn

CostConsumeLocked ==
    \E source_order_no \in Sources :
        Finish("consume_locked_stock", consume_locked_stock(DB, source_order_no),
               MaxMovesCost)
        /\ UNCHANGED txn

NextCost ==
    CostStockIn \/ CostStockOut \/ CostLockStock \/ CostUnlockStock \/ CostConsumeLocked

SpecCost == Init /\ [][NextCost]_vars

\* ============================================== with a producer injected
\* StockService built with a KafkaProducer (get_stock_service passes what
\* get_kafka_producer yields); the handlers work on the key ("A", 1).
InitNotify ==
    /\ stock = [k \in Keys |-> NoStock]
    /\ details = <<>>
    /\ locks = <<>>
    /\ moves = <<>>
    /\ lastOp = [op |-> "none", code |-> "OK", out |-> 0]
    /\ txn = [p \in Procs |-> Idle]
    /\ kafka = "producer"
    /\ sent = <<>>
    /\ published = <<>>

OnKeyA(req) == \A i \in 1..Len(req.items) : req.items[i].sku_id = "A"

NotifyStockIn ==
    \E req \in {q \in StockInRequests : OnKeyA(q)} :
        /\ Len(details) + Len(req.items) <= MaxBatches
        /\ Len(moves) + Len(req.items) <= MaxMovesNotify
        /\ Finish("stock_in", stock_in(DB, req), MaxMovesNotify)
        /\ Len(sent') <= MaxSent
        /\ UNCHANGED txn

NotifyStockOut ==
    \E req \in {q \in StockOutRequests : OnKeyA(q)} :
        /\ Finish("stock_out", stock_out(DB, req), MaxMovesNotify)
        /\ Len(sent') <= MaxSent
        /\ UNCHANGED txn

NotifyLockStock ==
    \E req \in {q \in StockLockRequests : OnKeyA(q)} :
        Finish("lock_stock", lock_stock(DB, req), MaxMovesNotify) /\ UNCHANGED txn

NotifyUnlockStock ==
    \E req \in StockUnlockRequests :
        Finish("unlock_stock", unlock_stock(DB, req), MaxMovesNotify) /\ UNCHANGED txn

NotifyConsumeLocked ==
    \E source_order_no \in Sources :
        /\ Finish("consume_locked_stock", consume_locked_stock(DB, source_order_no),
                  MaxMovesNotify)
        /\ Len(sent') <= MaxSent
        /\ UNCHANGED txn

NextNotify ==
    \/ NotifyStockIn
    \/ NotifyStockOut
    \/ NotifyLockStock
    \/ NotifyUnlockStock
    \/ NotifyConsumeLocked

SpecNotify == InitNotify /\ [][NextNotify]_vars

\* ================================================= overlapping handler calls
\* Any two handler calls overlap, each in its own session.  A call reads its
\* rows with plain SELECTs when it starts (ParBegin), works on what it read,
\* and flushes and commits at its end (ParCommit), as under SpecConc.  Calls
\* carry one item; receipts name no batch and releases are by source.
\* the five mutating handlers
Handlers == {"stock_in", "stock_out", "lock_stock", "unlock_stock", "consume_locked_stock"}

ParSources == {"O1"}

ParInRequests ==
    [warehouse_id : Warehouses, source_order_no : {"P1"},
     items : SeqsUpTo([sku_id : Skus, qty : 1..MaxQtyPar, unit_cost : 1..MaxCost,
                       batch_no : {None}], 1)]
ParOutRequests ==
    [warehouse_id : Warehouses, source_order_no : {"S1"},
     items : SeqsUpTo([sku_id : Skus, qty : {1}, batch_no : {None}], 1)]
ParLockRequests ==
    [warehouse_id : Warehouses, source_order_no : ParSources,
     items : SeqsUpTo([sku_id : Skus, qty : {1}], 1)]
ParUnlockRequests == [lock_nos : {{}}, source_order_no : ParSources]
ParConsumeRequests == [source_order_no : ParSources]

\* the requests of handler op
ParRequests(op) ==
    CASE op = "stock_in" -> ParInRequests
      [] op = "stock_out" -> ParOutRequests
      [] op = "lock_stock" -> ParLockRequests
      [] op = "unlock_stock" -> ParUnlockRequests
      [] op = "consume_locked_stock" -> ParConsumeRequests

\* handler op called with req in a session that sees the tables as s
Run(op, s, req) ==
    CASE op = "stock_in" -> stock_in(s, req)
      [] op = "stock_out" -> stock_out(s, req)
      [] op = "lock_stock" -> lock_stock(s, req)
      [] op = "unlock_stock" -> unlock_stock(s, req)
      [] op = "consume_locked_stock" -> consume_locked_stock(s, req.source_order_no)

\* get_or_create_stock inserts a stock row for a key it read as absent; when
\* another session has inserted the key meanwhile, the INSERT violates
\* uk_sku_warehouse and the flush raises IntegrityError
FlushFails(cur, read, new) ==
    \E k \in Keys : new.stock[k].exists /\ ~read.stock[k].exists /\ cur.stock[k].exists

\* the result of a call that read the tables as read and runs to its end
\* while the tables are cur
RunOn(cur, read, op, req) ==
    LET r == Run(op, read, req)
    IN  IF FlushFails(cur, read, r.s)
        THEN [code |-> "IntegrityError", s |-> cur, out |-> 0]
        ELSE [r EXCEPT !.s = Flush(cur, read, r.s)]

BoundedPar(s) ==
    /\ Len(s.details) <= MaxBatchesPar
    /\ Len(s.locks) <= MaxLocks
    /\ Len(s.moves) <= MaxMovesPar

\* a handler call up to its first SELECT
ParBegin(p) ==
    /\ ~txn[p].active
    /\ Len(moves) < MaxMovesPar
    /\ \E op \in Handlers :
          \E req \in ParRequests(op) :
              txn' = [txn EXCEPT ![p] = [active |-> TRUE, op |-> op, req |-> req, snap |-> DB]]
    /\ UNCHANGED <<stock, details, locks, moves, lastOp, notifications>>

\* the rest of the call: its checks and updates on the rows it read, and
\* db.commit() (or the raise, which commits nothing).  lastOp.stale tells
\* whether another call has committed since this one read.
ParCommit(p) ==
    /\ txn[p].active
    /\ LET r == RunOn(DB, txn[p].snap, txn[p].op, txn[p].req)
           c == commit(DB, r)
       IN  /\ r.code = "OK" => BoundedPar(c)
           /\ stock'   = c.stock
           /\ details' = c.details
           /\ locks'   = c.locks
           /\ moves'   = c.moves
           /\ lastOp'  = [op |-> txn[p].op, code |-> r.code,
                          out |-> IF r.code = "OK" THEN r.out ELSE 0,
                          stale |-> txn[p].snap # DB]
    /\ txn' = [txn EXCEPT ![p] = Idle]
    /\ UNCHANGED notifications

NextPar ==
    \/ \E p \in Procs : ParBegin(p)
    \/ \E p \in Procs : ParCommit(p)

SpecPar == Init /\ [][NextPar]_vars

\* ============================================================== properties
KeyOf(row) == <<row.sku_id, row.warehouse_id>>

\* the remaining quantity of the batches of key k
BatchSum(ds, k) ==
    SumTo([i \in 1..Len(ds) |-> IF KeyOf(ds[i]) = k THEN ds[i].qty ELSE 0], Len(ds))

\* the quantity held by the LOCKED lock records of key k
LockedSum(ls, k) ==
    SumTo([i \in 1..Len(ls) |->
              IF KeyOf(ls[i]) = k /\ ls[i].status = "LOCKED" THEN ls[i].locked_qty ELSE 0],
          Len(ls))

\* the quantity of the movement entries ms[from..] of type move_type for key k
MovedSum(ms, from, k, move_type) ==
    SumTo([i \in 1..Len(ms) |->
              IF i >= from /\ KeyOf(ms[i]) = k /\ ms[i].move_type = move_type
              THEN ms[i].qty ELSE 0],
          Len(ms))

Succeeded(op) == lastOp.op = op /\ lastOp.code = "OK"
Failed(op, code) == lastOp.op = op /\ lastOp.code = code

\* the step is a call of one of the handlers ops (it sets lastOp and is not
\* the opening of a lock_stock call)
CallOf(ops) == lastOp'.op \in ops /\ txn' = txn /\ <<tables, lastOp>>' # <<tables, lastOp>>

\* ---- C1
\* C1: after any sequence of committed stock_in, stock_out, lock_stock,
\* unlock_stock and consume_locked_stock calls, every stock row has
\* available_qty = qty - locked_qty.
C1_AvailableIsQtyMinusLocked ==
    \A k \in Keys : stock[k].available_qty = stock[k].qty - stock[k].locked_qty

\* a fulfilment has committed on a key that still holds reserved stock
C1_Witness ==
    /\ Succeeded("consume_locked_stock")
    /\ \E k \in Keys : stock[k].locked_qty > 0 /\ stock[k].qty > 0

\* ---- C2
\* C2: after any sequence of committed calls every stock row has qty >= 0,
\* locked_qty >= 0 and locked_qty <= qty.
C2_QuantitiesInRange ==
    \A k \in Keys :
        /\ stock[k].qty >= 0
        /\ stock[k].locked_qty >= 0
        /\ stock[k].locked_qty <= stock[k].qty

\* an issue has taken all that was available of a key with reserved stock
C2_Witness ==
    /\ Succeeded("stock_out")
    /\ \E k \in Keys : stock[k].locked_qty > 0 /\ stock[k].locked_qty = stock[k].qty

\* ---- C3
\* C3: after any sequence of committed calls, the remaining quantities of
\* the batches of every key add up to the on-hand quantity of its stock row.
C3_BatchSumIsOnHand ==
    \A k \in Keys : BatchSum(details, k) = stock[k].qty

\* a fulfilment has emptied one batch of a key and left another with stock
C3_Witness ==
    /\ Succeeded("consume_locked_stock")
    /\ \E i, j \in 1..Len(details) :
          /\ i < j
          /\ KeyOf(details[i]) = KeyOf(details[j])
          /\ details[i].qty = 0
          /\ details[j].qty > 0

\* ---- C4
\* C4: when lock_stock calls for the same key overlap, the quantity held by
\* the key's LOCKED lock records never exceeds its on-hand quantity, and
\* locked_qty <= qty (no oversell).
C4_NoOversell ==
    \A k \in Keys :
        /\ LockedSum(locks, k) <= stock[k].qty
        /\ stock[k].locked_qty <= stock[k].qty

\* ---- C5
\* the request asks, for some item, more than its key has available, every
\* key of the request having a stock row
LockOverAsks(req) ==
    /\ \A i \in 1..Len(req.items) : stock[<<req.items[i].sku_id, req.warehouse_id>>].exists
    /\ \E i \in 1..Len(req.items) :
          req.items[i].qty > stock[<<req.items[i].sku_id, req.warehouse_id>>].available_qty

\* C5: a lock_stock call for more than the key's available quantity fails
\* with INSUFFICIENT_AVAILABLE_STOCK and leaves the lock records, the
\* movement entries and the stock rows as they were.
C5_LockOverAskFails ==
    \A req \in StockLockRequests :
        LockOverAsks(req) =>
            LET r == lock_stock(DB, req)
            IN  /\ r.code = "INSUFFICIENT_AVAILABLE_STOCK"
                /\ commit(DB, r) = DB

\* a lock_stock call has failed so on a key whose stock is partly reserved
C5_Witness ==
    /\ Failed("lock_stock", "INSUFFICIENT_AVAILABLE_STOCK")
    /\ \E k \in Keys : stock[k].locked_qty > 0 /\ stock[k].available_qty > 0

\* ---- C6
\* the request asks, for some item, more than its key has available; every
\* key of the request has a stock row and no earlier item names a batch
OutOverAsks(req) ==
    /\ \A i \in 1..Len(req.items) : stock[<<req.items[i].sku_id, req.warehouse_id>>].exists
    /\ \E i \in 1..Len(req.items) :
          /\ req.items[i].qty > stock[<<req.items[i].sku_id, req.warehouse_id>>].available_qty
          /\ \A j \in 1..(i - 1) : req.items[j].batch_no = None

\* C6: a stock_out call for more than the key's available quantity fails
\* with INSUFFICIENT_STOCK and leaves the stock rows, the batches and the
\* movement entries as they were.
C6_OutOverAskFails ==
    \A req \in StockOutRequests :
        OutOverAsks(req) =>
            LET r == stock_out(DB, req)
            IN  /\ r.code = "INSUFFICIENT_STOCK"
                /\ commit(DB, r) = DB

\* a stock_out call has failed so on a key with enough on hand, part of it
\* reserved
C6_Witness ==
    /\ Failed("stock_out", "INSUFFICIENT_STOCK")
    /\ \E k \in Keys : stock[k].locked_qty > 0 /\ stock[k].qty >= MaxQty

\* ---- C7
\* C7: a stock_out or consume_locked_stock call either commits batch
\* decrements that add up, for every key, to the quantity it takes from
\* on-hand, together with movement entries for that quantity, or it fails
\* and changes no batch, stock row or movement entry.
C7_AtomicDepletion ==
    [][ CallOf({"stock_out", "consume_locked_stock"}) =>
            IF lastOp'.code = "OK"
            THEN \A k \in Keys :
                    /\ BatchSum(details, k) - BatchSum(details', k)
                           = stock[k].qty - stock'[k].qty
                    /\ MovedSum(moves', Len(moves) + 1, k, "OUT")
                           = stock[k].qty - stock'[k].qty
            ELSE tables' = tables ]_vars

\* ---- C8
\* C8: the status of a lock record only ever changes from LOCKED to UNLOCKED
\* or from LOCKED to CONSUMED.
C8_StatusOnlyLeavesLocked ==
    [][ \A i \in 1..Len(locks) :
            locks'[i].status # locks[i].status =>
                /\ locks[i].status = "LOCKED"
                /\ locks'[i].status \in {"UNLOCKED", "CONSUMED"} ]_vars

\* a later consume_locked_stock call has found a released record and
\* nothing LOCKED
C8_Witness ==
    /\ Failed("consume_locked_stock", "LOCK_NOT_FOUND")
    /\ \E i \in 1..Len(locks) : locks[i].status = "UNLOCKED"
    /\ \A i \in 1..Len(locks) : locks[i].status # "LOCKED"

\* ---- C9
\* every lock record of the source has been consumed
AllConsumed(source_order_no) ==
    /\ \E i \in 1..Len(locks) : locks[i].source_order_no = source_order_no
    /\ \A i \in 1..Len(locks) :
          locks[i].source_order_no = source_order_no => locks[i].status = "CONSUMED"

\* C9: once consume_locked_stock has consumed all lock records of a source,
\* a repeated call for that source fails with LOCK_NOT_FOUND and changes no
\* stock row, batch, lock record or movement entry.
C9_RepeatedConsumeFails ==
    \A source_order_no \in Sources :
        AllConsumed(source_order_no) =>
            LET r == consume_locked_stock(DB, source_order_no)
            IN  /\ r.code = "LOCK_NOT_FOUND"
                /\ commit(DB, r) = DB

\* a consume_locked_stock call has failed so with every lock record consumed
C9_Witness ==
    /\ Failed("consume_locked_stock", "LOCK_NOT_FOUND")
    /\ Len(locks) > 0
    /\ \A i \in 1..Len(locks) : locks[i].status = "CONSUMED"

\* ---- C10
\* the request names, by lock number or by source, lock records that exist
\* and are all UNLOCKED
NamesReleased(req) ==
    LET named == { i \in 1..Len(locks) :
                      IF req.lock_nos # {} THEN i \in req.lock_nos
                      ELSE locks[i].source_order_no = req.source_order_no }
    IN  /\ named # {}
        /\ req.lock_nos \subseteq 1..Len(locks)
        /\ \A i \in named : locks[i].status = "UNLOCKED"

\* C10: an unlock_stock call for lock records that are already released
\* fails with LOCK_NOT_FOUND, decrements no locked_qty and writes no
\* movement entry.
C10_RepeatedUnlockFails ==
    \A req \in StockUnlockRequests :
        NamesReleased(req) =>
            LET r == unlock_stock(DB, req)
            IN  /\ r.code = "LOCK_NOT_FOUND"
                /\ commit(DB, r) = DB

\* an unlock_stock call has failed so with every lock record released
C10_Witness ==
    /\ Failed("unlock_stock", "LOCK_NOT_FOUND")
    /\ Len(locks) > 0
    /\ \A i \in 1..Len(locks) : locks[i].status = "UNLOCKED"

\* ---- C11
\* the rows the step appends to stock_move
NewMoves == SubSeq(moves', Len(moves) + 1, Len(moves'))

\* the value (qty * unit_cost) of the movement entries ms of type move_type
\* for key k
MovedValue(ms, k, move_type) ==
    SumTo([i \in 1..Len(ms) |->
              IF KeyOf(ms[i]) = k /\ ms[i].move_type = move_type
              THEN ms[i].qty * ms[i].unit_cost ELSE 0],
          Len(ms))

\* the step receives 50 at 16.0000 into key ("A", 1) holding 100 at an
\* average of 10.0000
ReceiptExample ==
    /\ CallOf({"stock_in"})
    /\ stock[<<"A", 1>>].qty = 100
    /\ stock[<<"A", 1>>].avg_cost = 100000
    /\ Len(NewMoves) = 1
    /\ NewMoves[1].sku_id = "A"
    /\ NewMoves[1].qty = 50
    /\ NewMoves[1].unit_cost = 160000

\* C11: a stock_in call that receives quantity q of total value v (the sum
\* of qty * unit_cost of its items) into a key with on-hand Q and average
\* cost A leaves on-hand Q + q and the average cost (Q*A + v) / (Q + q),
\* rounded to the four fractional digits of the column; the average is
\* exactly c when Q = 0 and the items all cost c; receiving 50 at 16.0000
\* after 100 at 10.0000 gives on-hand 150 and average cost 12.0000.
C11_MovingAverage ==
    [][ CallOf({"stock_in"}) =>
            /\ \A k \in Keys :
                  LET Q == stock[k].qty
                      A == stock[k].avg_cost
                      q == MovedSum(NewMoves, 1, k, "IN")
                      v == MovedValue(NewMoves, k, "IN")
                      new_avg == stock'[k].avg_cost
                  IN  IF q = 0 THEN stock'[k] = stock[k]
                      ELSE /\ stock'[k].qty = Q + q
                           /\ 2 * new_avg * (Q + q) - 2 * (Q * A + v) <= Q + q
                           /\ 2 * (Q * A + v) - 2 * new_avg * (Q + q) <= Q + q
                           /\ \A c \in CostUnitCosts :
                                 (Q = 0 /\ v = q * c) => new_avg = c
            /\ ReceiptExample =>
                  /\ stock'[<<"A", 1>>].qty = 150
                  /\ stock'[<<"A", 1>>].avg_cost = 120000 ]_vars

\* C11 as stated: receiving 50 at 16.0000 after 100 at 10.0000 gives on-hand
\* 150 and average cost 13.3333
C11_ExampleAsStated ==
    [][ ReceiptExample =>
            /\ stock'[<<"A", 1>>].qty = 150
            /\ stock'[<<"A", 1>>].avg_cost = 133333 ]_vars

\* 100 at 10.0000 and then 50 at 16.0000 have been received
C11_Witness ==
    /\ Succeeded("stock_in")
    /\ stock[<<"A", 1>>].qty = 150
    /\ stock[<<"A", 1>>].avg_cost = 120000
    /\ Len(details) = 2
    /\ details[1].qty = 100 /\ details[1].unit_cost = 100000
    /\ details[2].qty = 50 /\ details[2].unit_cost = 160000

\* ---- C12
\* C12: a stock_out, lock_stock, unlock_stock or consume_locked_stock call
\* leaves the avg_cost of every stock row as it was; only stock_in assigns it.
C12_OnlyStockInChangesAvgCost ==
    [][ CallOf({"stock_out", "lock_stock", "unlock_stock", "consume_locked_stock"}) =>
            \A k \in Keys : stock'[k].avg_cost = stock[k].avg_cost ]_vars

\* a stock_out call has taken from a key whose average cost is 6.6667
C12_Witness ==
    /\ Succeeded("stock_out")
    /\ stock[<<"A", 1>>].qty = 50
    /\ stock[<<"A", 1>>].avg_cost = 66667

\* ---- C13
\* the call named no batch: consume_locked_stock never does, and a stock_out
\* movement entry carries the batch_no of its item
NoBatchNamed == \A i \in 1..Len(NewMoves) : NewMoves[i].batch_no = None

\* C13: in a successful stock_out call that names no batch and in a
\* successful consume_locked_stock call, a batch is decremented only if
\* every batch of the same key received before it is left with zero
\* remaining quantity (batches are taken oldest first; empty ones are passed
\* over).
C13_FifoDepletion ==
    [][ (CallOf({"stock_out", "consume_locked_stock"}) /\ lastOp'.code = "OK" /\ NoBatchNamed) =>
            /\ Len(details') = Len(details)
            /\ \A j \in 1..Len(details) :
                  details'[j].qty < details[j].qty =>
                      \A i \in 1..(j - 1) :
                          KeyOf(details[i]) = KeyOf(details[j]) => details'[i].qty = 0 ]_vars

\* a consume_locked_stock call for a lock record of 2 has emptied the older
\* batch of a key, of 1, and taken 1 from the newer one, of 2
C13_Witness ==
    /\ Succeeded("consume_locked_stock")
    /\ Len(details) = 2
    /\ KeyOf(details[1]) = KeyOf(details[2])
    /\ details[1].qty = 0
    /\ details[2].qty = 1
    /\ Len(moves) = 4
    /\ moves[1].qty = 1 /\ moves[2].qty = 2 /\ moves[3].qty = 2 /\ moves[4].qty = 2

\* ---- C14
\* what the step takes from the batches, each quantity at its batch's unit
\* cost
DepletedValue ==
    SumTo([j \in 1..Len(details) |->
              (details[j].qty - details'[j].qty) * details[j].unit_cost],
          Len(details))

\* C14: the total_cost a successful stock_out or consume_locked_stock call
\* returns is the sum, over the batches it depletes, of the quantity taken
\* from the batch times the batch's unit cost.
C14_TotalCostIsDepletedValue ==
    [][ (CallOf({"stock_out", "consume_locked_stock"}) /\ lastOp'.code = "OK") =>
            /\ Len(details') = Len(details)
            /\ lastOp'.out = DepletedValue ]_vars

\* a stock_out call has taken 50 from a batch at 10.0000 and 50 from a batch
\* at 16.0000 and returned their value
C14_Witness ==
    /\ Succeeded("stock_out")
    /\ Len(details) = 2
    /\ details[1].qty = 0 /\ details[1].unit_cost = 100000
    /\ details[2].qty = 50 /\ details[2].unit_cost = 160000
    /\ lastOp.out = 50 * 100000 + 50 * 160000

\* ---- C15
\* the quantity of the lock records of key k that the step turns from LOCKED
\* to CONSUMED
ConsumedSum(k) ==
    SumTo([i \in 1..Len(locks) |->
              IF KeyOf(locks[i]) = k /\ locks[i].status = "LOCKED"
                 /\ locks'[i].status = "CONSUMED"
              THEN locks[i].locked_qty ELSE 0],
          Len(locks))

\* C15: a successful consume_locked_stock call takes the quantity of the
\* lock records it consumes from both qty and locked_qty of their key, and
\* leaves available_qty of every key as it was.
C15_ConsumeKeepsAvailable ==
    [][ (CallOf({"consume_locked_stock"}) /\ lastOp'.code = "OK") =>
            \A k \in Keys :
                /\ stock'[k].qty = stock[k].qty - ConsumedSum(k)
                /\ stock'[k].locked_qty = stock[k].locked_qty - ConsumedSum(k)
                /\ stock'[k].available_qty = stock[k].available_qty ]_vars

\* a consume_locked_stock call has consumed a lock record of 50 on a key
\* that held 100 with 50 available
C15_Witness ==
    /\ Succeeded("consume_locked_stock")
    /\ Len(locks) = 1
    /\ locks[1].status = "CONSUMED" /\ locks[1].locked_qty = 50
    /\ stock[KeyOf(locks[1])].qty = 50
    /\ stock[KeyOf(locks[1])].locked_qty = 0
    /\ stock[KeyOf(locks[1])].available_qty = 50

\* ---- C16
\* the lock records the step adds, and the quantity they hold for key k
NewLocks == SubSeq(locks', Len(locks) + 1, Len(locks'))

\* C16: a successful lock_stock call adds the quantity it was asked to lock
\* for a key to the key's locked_qty and takes it from available_qty, and
\* leaves qty, avg_cost and every batch as they were.
C16_LockMovesAvailableToLocked ==
    [][ (CallOf({"lock_stock"}) /\ lastOp'.code = "OK") =>
            /\ Len(NewLocks) > 0
            /\ \A i \in 1..Len(NewLocks) : NewLocks[i].status = "LOCKED"
            /\ \A k \in Keys :
                  /\ stock'[k].locked_qty = stock[k].locked_qty + LockedSum(NewLocks, k)
                  /\ stock'[k].available_qty = stock[k].available_qty - LockedSum(NewLocks, k)
                  /\ stock'[k].qty = stock[k].qty
                  /\ stock'[k].avg_cost = stock[k].avg_cost
            /\ details' = details ]_vars

\* a lock_stock call of two items of 50 has locked the whole of a key that
\* holds 100 in one batch
C16_Witness ==
    /\ Succeeded("lock_stock")
    /\ Len(locks) = 2
    /\ locks[1].locked_qty = 50 /\ locks[2].locked_qty = 50
    /\ locks[1].status = "LOCKED" /\ locks[2].status = "LOCKED"
    /\ stock[<<"A", 1>>].qty = 100
    /\ stock[<<"A", 1>>].locked_qty = 100
    /\ stock[<<"A", 1>>].available_qty = 0
    /\ Len(details) = 1 /\ details[1].qty = 100

\* ---- C17

\* the rows of rs that belong to key k
CountOf(rs, k) == SumTo([i \in 1..Len(rs) |-> IF KeyOf(rs[i]) = k THEN 1 ELSE 0], Len(rs))

\* the batches the step adds
NewDetails == SubSeq(details', Len(details) + 1, Len(details'))

\* the lock records of key k that the step turns from LOCKED to status
TurnedCount(k, status) ==
    SumTo([i \in 1..Len(locks) |->
              IF KeyOf(locks[i]) = k /\ locks[i].status = "LOCKED"
                 /\ locks'[i].status = status
              THEN 1 ELSE 0],
          Len(locks))

\* the step is the successful stock_out call for request req
IsStockOutOf(req) ==
    LET r == stock_out(DB, req)
    IN  /\ r.code = "OK"
        /\ stock' = r.s.stock /\ details' = r.s.details /\ moves' = r.s.moves

\* the step changes the stock row, a batch or a lock record of key k
Affected(k) ==
    \/ stock'[k] # stock[k]
    \/ CountOf(NewDetails, k) > 0
    \/ CountOf(NewLocks, k) > 0
    \/ \E i \in 1..Len(details) : KeyOf(details[i]) = k /\ details'[i] # details[i]
    \/ \E i \in 1..Len(locks) : KeyOf(locks[i]) = k /\ locks'[i] # locks[i]

\* C17: a successful call appends to the ledger one movement entry for each
\* item it receives, issues or locks and for each lock record it releases or
\* consumes (so a key named by two items of one request gets two entries),
\* and keeps the entries already there; a call that fails appends none.
C17_OneEntryPerItem ==
    [][ CallOf(Handlers) =>
            IF lastOp'.code # "OK" THEN moves' = moves
            ELSE /\ SubSeq(moves', 1, Len(moves)) = moves
                 /\ \A k \in Keys :
                       LET n == CountOf(NewMoves, k)
                       IN  /\ lastOp'.op = "stock_in" => n = CountOf(NewDetails, k)
                           /\ lastOp'.op = "lock_stock" => n = CountOf(NewLocks, k)
                           /\ lastOp'.op = "unlock_stock" => n = TurnedCount(k, "UNLOCKED")
                           /\ lastOp'.op = "consume_locked_stock" => n = TurnedCount(k, "CONSUMED")
                           /\ lastOp'.op = "stock_out" =>
                                 \A req \in CostOutRequests :
                                     IsStockOutOf(req) =>
                                         n = CountOf([i \in 1..Len(req.items) |->
                                                         [sku_id |-> req.items[i].sku_id,
                                                          warehouse_id |-> req.warehouse_id]], k)
       ]_vars

\* C17 as stated: a successful call appends exactly one movement entry for
\* each key it affects, and a call that fails appends none.
C17_OneEntryPerKey ==
    [][ CallOf(Handlers) =>
            IF lastOp'.code # "OK" THEN moves' = moves
            ELSE \A k \in Keys :
                    CountOf(NewMoves, k) = IF Affected(k) THEN 1 ELSE 0 ]_vars

\* a stock_out call has raised after a stock_in call of two items for one
\* key: two entries for the receipt, none for the issue
C17_Witness ==
    /\ Failed("stock_out", "INSUFFICIENT_STOCK")
    /\ Len(moves) = 2
    /\ moves[1].move_type = "IN" /\ moves[2].move_type = "IN"
    /\ KeyOf(moves[1]) = KeyOf(moves[2])
    /\ stock[KeyOf(moves[1])].qty = 100

\* ---- C18
\* the position of the latest movement entry of key k with a type in types
\* (0 when there is none)
LatestOf(k, types) ==
    LET S == {i \in 1..Len(moves) : KeyOf(moves[i]) = k /\ moves[i].move_type \in types}
    IN  IF S = {} THEN 0 ELSE CHOOSE i \in S : \A j \in S : j <= i

\* after_qty of that entry (0 when there is none)
LatestAfter(k, types) ==
    IF LatestOf(k, types) = 0 THEN 0 ELSE moves[LatestOf(k, types)].after_qty

\* C18: replaying the ledger gives the current state: every entry has
\* after_qty = before_qty + qty (IN, LOCK) or before_qty - qty (OUT,
\* UNLOCK), qty of a key is the after_qty of its latest IN / OUT entry and
\* locked_qty is the after_qty of its latest LOCK / UNLOCK entry (0 when it
\* has none).
C18_LedgerReplays ==
    /\ \A i \in 1..Len(moves) :
          moves[i].after_qty =
              IF moves[i].move_type \in {"IN", "LOCK"}
              THEN moves[i].before_qty + moves[i].qty
              ELSE moves[i].before_qty - moves[i].qty
    /\ \A k \in Keys :
          /\ stock[k].qty = LatestAfter(k, {"IN", "OUT"})
          /\ stock[k].locked_qty = LatestAfter(k, {"LOCK", "UNLOCK"})

\* ---- C19
\* C19: a change notification leaves the handler only for a mutation that is
\* committed: every event passed to the message sink is the event of a
\* movement entry in the committed ledger.
C19_SentOnlyForCommitted ==
    \A i \in 1..Len(sent) :
        \E j \in 1..Len(moves) : StockChangedEvent(moves[j]) = sent[i]

\* ---- C20
\* C20: every committed mutation has its notification: for every key the
\* broker has been handed as many events as the ledger holds movement
\* entries, an event for each entry, whatever its move_type.
C20_EveryMutationNotified ==
    /\ \A k \in Keys : CountOf(published, k) = CountOf(moves, k)
    /\ \A j \in 1..Len(moves) :
          \E i \in 1..Len(published) : published[i] = StockChangedEvent(moves[j])

\* ---- C21
\* the step leaves the tables and the caller with the outcome r of handler op
Outcome(op, r) ==
    /\ lastOp' = [op |-> op, code |-> r.code, out |-> IF r.code = "OK" THEN r.out ELSE 0]
    /\ stock' = commit(DB, r).stock
    /\ details' = commit(DB, r).details
    /\ locks' = commit(DB, r).locks
    /\ moves' = commit(DB, r).moves

\* the step passes events to kafka.send and none of them reaches the broker
SinkFails == Len(sent') > Len(sent) /\ published' = published

\* C21: a stock_in, stock_out or consume_locked_stock call during which
\* kafka.send fails ends as the handler ends on its own: with the handler's
\* own result code and total_cost, and with the stock rows, batches, lock
\* records and movement entries it commits (or, when the handler itself
\* raises, leaves as they were).
C21_SinkFailureIsHarmless ==
    [][ (CallOf(Publishers) /\ SinkFails) =>
            \/ \E req \in StockInRequests : Outcome("stock_in", stock_in(DB, req))
            \/ \E req \in StockOutRequests : Outcome("stock_out", stock_out(DB, req))
            \/ \E source_order_no \in Sources :
                  Outcome("consume_locked_stock", consume_locked_stock(DB, source_order_no))
       ]_vars

\* a receipt and a fulfilment have committed although neither of their two
\* events reached the broker
C21_Witness ==
    /\ Succeeded("consume_locked_stock")
    /\ Len(sent) = 2
    /\ published = <<>>
    /\ Len(moves) = 3
    /\ moves[1].move_type = "IN" /\ moves[3].move_type = "OUT"
    /\ Len(locks) = 1 /\ locks[1].status = "CONSUMED"
    /\ stock[KeyOf(locks[1])].qty = moves[3].after_qty

\* ---- C22
\* the request names lock numbers or a source
NamesSomething(req) == req.lock_nos # {} \/ req.source_order_no # NoSource

\* the LOCKED lock records the request names: by lock number when it gives
\* lock numbers, else by source
UnlockMatches(req) ==
    { i \in 1..Len(locks) :
          /\ locks[i].status = "LOCKED"
          /\ IF req.lock_nos # {} THEN i \in req.lock_nos
             ELSE locks[i].source_order_no = req.source_order_no }

\* the quantity those records hold for key k
MatchedQty(req, k) ==
    SumTo([i \in 1..Len(locks) |->
              IF i \in UnlockMatches(req) /\ KeyOf(locks[i]) = k
              THEN locks[i].locked_qty ELSE 0],
          Len(locks))

\* C22: an unlock_stock call turns every LOCKED lock record its request
\* names (by lock number or by source) to UNLOCKED and no other, takes the
\* quantity of each from the locked_qty of its key and returns their number
\* as unlocked_count; when the request names no LOCKED record (an unknown
\* lock number included) it fails with LOCK_NOT_FOUND and changes nothing.
C22_UnlockReleasesMatches ==
    \A req \in StockUnlockRequests :
        NamesSomething(req) =>
            LET r == unlock_stock(DB, req)
                c == commit(DB, r)
                M == UnlockMatches(req)
            IN  IF M = {}
                THEN r.code = "LOCK_NOT_FOUND" /\ c = DB
                ELSE /\ r.code = "OK"
                     /\ r.out = Cardinality(M)
                     /\ Len(c.locks) = Len(locks)
                     /\ \A i \in 1..Len(locks) :
                           c.locks[i] = IF i \in M
                                        THEN [locks[i] EXCEPT !.status = "UNLOCKED"]
                                        ELSE locks[i]
                     /\ \A k \in Keys :
                           /\ c.stock[k].locked_qty = stock[k].locked_qty - MatchedQty(req, k)
                           /\ c.stock[k].qty = stock[k].qty
                     /\ c.details = details

\* an unlock_stock call by lock number has released one of two lock records
\* of the same key and source and left the other LOCKED
C22_Witness ==
    /\ Succeeded("unlock_stock")
    /\ lastOp.out = 1
    /\ Len(locks) = 2
    /\ KeyOf(locks[1]) = KeyOf(locks[2])
    /\ locks[1].source_order_no = locks[2].source_order_no
    /\ locks[1].status = "UNLOCKED"
    /\ locks[2].status = "LOCKED"
    /\ stock[KeyOf(locks[2])].locked_qty = locks[2].locked_qty

\* ---- C23
\* the lock_stock call for req raises after it has locked an earlier item in
\* its session
RaisesPartWay(req) ==
    LET r == lock_stock(DB, req)
    IN  r.code # "OK" /\ Len(r.s.locks) > Len(locks)

\* C23: a lock_stock call is all or nothing: when it raises for any of its
\* items (no stock row, or less available than asked) no lock record and no
\* movement entry of the request is kept and every stock row is as it was,
\* also for the items before the failing one; when it succeeds there is one
\* LOCKED record for each item.
C23_LockAllOrNothing ==
    \A req \in StockLockRequests :
        LET r == lock_stock(DB, req)
            c == commit(DB, r)
        IN  IF r.code # "OK"
            THEN c.locks = locks /\ c.stock = stock /\ c.moves = moves /\ c.details = details
            ELSE /\ Len(c.locks) = Len(locks) + Len(req.items)
                 /\ \A i \in 1..Len(req.items) :
                       /\ c.locks[Len(locks) + i].status = "LOCKED"
                       /\ c.locks[Len(locks) + i].sku_id = req.items[i].sku_id
                       /\ c.locks[Len(locks) + i].locked_qty = req.items[i].qty

\* a lock_stock call whose first item could be locked and whose second item
\* asked too much has failed; nothing is locked
C23_Witness ==
    /\ Failed("lock_stock", "INSUFFICIENT_AVAILABLE_STOCK")
    /\ locks = <<>>
    /\ \A k \in Keys : stock[k].locked_qty = 0
    /\ \E req \in StockLockRequests :
          /\ RaisesPartWay(req)
          /\ lock_stock(DB, req).code = "INSUFFICIENT_AVAILABLE_STOCK"

\* ---- C24
\* every item of the request names a batch
NamesBatches(req) == \A i \in 1..Len(req.items) : req.items[i].batch_no # None

\* what is left of the batch rows of key k that carry batch_no
NamedRemaining(ds, k, batch_no) ==
    SumTo([j \in 1..Len(ds) |->
              IF KeyOf(ds[j]) = k /\ ds[j].batch_no = batch_no THEN ds[j].qty ELSE 0],
          Len(ds))

\* C24: a stock_out call whose items name a batch changes no batch row but
\* those carrying the named batch_no for the item's key; a call of one item
\* whose key has a stock row with enough available fails with
\* INSUFFICIENT_BATCH_STOCK and changes nothing when the named batch holds
\* less than the item asks, and otherwise takes the item's quantity from
\* the named batch.
C24_NamedBatchOnly ==
    \A req \in StockOutRequests :
        NamesBatches(req) =>
            LET r == stock_out(DB, req)
                c == commit(DB, r)
                item == req.items[1]
                k == <<item.sku_id, req.warehouse_id>>
            IN  /\ Len(c.details) = Len(details)
                /\ \A j \in 1..Len(details) :
                      c.details[j] # details[j] =>
                          \E i \in 1..Len(req.items) :
                              /\ details[j].batch_no = req.items[i].batch_no
                              /\ KeyOf(details[j]) = <<req.items[i].sku_id, req.warehouse_id>>
                /\ (Len(req.items) = 1 /\ stock[k].exists /\ stock[k].available_qty >= item.qty) =>
                      IF NamedRemaining(details, k, item.batch_no) < item.qty
                      THEN r.code = "INSUFFICIENT_BATCH_STOCK" /\ c = DB
                      ELSE /\ r.code = "OK"
                           /\ NamedRemaining(c.details, k, item.batch_no)
                                  = NamedRemaining(details, k, item.batch_no) - item.qty

\* a stock_out call naming the newer batch of a key has emptied it and left
\* the older batch of the key, which has stock, untouched
C24_Witness ==
    /\ Succeeded("stock_out")
    /\ Len(details) = 2
    /\ KeyOf(details[1]) = KeyOf(details[2])
    /\ details[1].batch_no \notin UserBatchNos
    /\ details[1].qty = MaxQty
    /\ details[2].batch_no \in UserBatchNos
    /\ details[2].qty = 0
    /\ Len(moves) = 3
    /\ moves[3].move_type = "OUT" /\ moves[3].batch_no = details[2].batch_no

\* ---- C25
\* the receipt of quantity Q at unit cost c into key ("A", 1), and the issue
\* of Q from it
ReceiptOf(Q, c) ==
    [warehouse_id |-> 1, source_order_no |-> "P1",
     items |-> <<[sku_id |-> "A", qty |-> Q, unit_cost |-> c, batch_no |-> None]>>]
IssueOf(Q) ==
    [warehouse_id |-> 1, source_order_no |-> "S1",
     items |-> <<[sku_id |-> "A", qty |-> Q, batch_no |-> None]>>]

\* C25: when a key holds nothing, receiving Q and then issuing Q succeeds and
\* leaves qty = 0 and available_qty = 0, and the batch row the receipt
\* created is still there, with quantity 0; the batch rows that were there
\* are as they were.
C25_ReceiveThenIssue ==
    \A Q \in CostQtys, c \in CostUnitCosts :
        stock[<<"A", 1>>].qty = 0 =>
            LET r1 == stock_in(DB, ReceiptOf(Q, c))
                s1 == commit(DB, r1)
                r2 == stock_out(s1, IssueOf(Q))
                s2 == commit(s1, r2)
                n  == Len(details) + 1
            IN  /\ r1.code = "OK" /\ r2.code = "OK"
                /\ s1.stock[<<"A", 1>>].qty = Q
                /\ s2.stock[<<"A", 1>>].qty = 0
                /\ s2.stock[<<"A", 1>>].available_qty = 0
                /\ Len(s1.details) = n /\ Len(s2.details) = n
                /\ s1.details[n].qty = Q
                /\ s2.details[n] = [s1.details[n] EXCEPT !.qty = 0]
                /\ SubSeq(s2.details, 1, n - 1) = details

\* 100 have been received into the empty key and 100 issued: nothing is on
\* hand and the batch is there with quantity 0
C25_Witness ==
    /\ Succeeded("stock_out")
    /\ Len(moves) = 2
    /\ moves[1].move_type = "IN" /\ moves[1].qty = 100 /\ moves[1].before_qty = 0
    /\ moves[2].move_type = "OUT" /\ moves[2].qty = 100
    /\ stock[<<"A", 1>>].qty = 0
    /\ stock[<<"A", 1>>].available_qty = 0
    /\ Len(details) = 1 /\ details[1].qty = 0

\* ---- C26
\* C26: the movement ledger is append-only: every step keeps each movement
\* entry that is there, unchanged and in its place, and at most adds entries
\* after them.
C26_LedgerAppendOnly ==
    [][ /\ Len(moves') >= Len(moves)
        /\ SubSeq(moves', 1, Len(moves)) = moves ]_vars

\* a receipt, a lock, its release and an issue have each left their entry
C26_Witness ==
    /\ Succeeded("stock_out")
    /\ Len(moves) = 4
    /\ moves[1].move_type = "IN"
    /\ moves[2].move_type = "LOCK"
    /\ moves[3].move_type = "UNLOCK"
    /\ moves[4].move_type = "OUT"
    /\ moves[4].before_qty = moves[1].after_qty

\* ---- C30
\* C30: after any sequence of committed calls, the locked_qty of every stock
\* row is the sum of locked_qty over the lock records of its key whose
\* status is LOCKED.
C30_LockedIsSumOfLockedRecords ==
    \A k \in Keys : stock[k].locked_qty = LockedSum(locks, k)

\* of two lock records of a key one has been consumed; the key's locked_qty
\* is what the other, still LOCKED, holds
C30_Witness ==
    /\ Succeeded("consume_locked_stock")
    /\ Len(locks) = 2
    /\ KeyOf(locks[1]) = KeyOf(locks[2])
    /\ locks[1].status = "CONSUMED"
    /\ locks[2].status = "LOCKED"
    /\ stock[KeyOf(locks[2])].locked_qty = locks[2].locked_qty
    /\ stock[KeyOf(locks[2])].qty = locks[2].locked_qty

\* ---- C27
\* the elements of a sequence
Range(seq) == { seq[i] : i \in 1..Len(seq) }

\* the keys a call of handler op with req addresses when the tables are s:
\* the keys of its items, or of the LOCKED lock records of its source
AddressedKeys(op, s, req) ==
    CASE op \in {"stock_in", "stock_out", "lock_stock"} ->
             { <<req.items[i].sku_id, req.warehouse_id>> : i \in 1..Len(req.items) }
      [] op = "unlock_stock" ->
             { KeyOf(s.locks[i]) : i \in Range(UnlockQuery(s, req)) }
      [] op = "consume_locked_stock" ->
             { KeyOf(s.locks[i]) : i \in Range(ConsumeQuery(s, req.source_order_no)) }

\* the stock row, the batches and the lock records of key k
RowsOf(s, k) ==
    <<s.stock[k],
      SelectSeq(s.details, LAMBDA d : KeyOf(d) = k),
      SelectSeq(s.locks, LAMBDA l : KeyOf(l) = k)>>

\* the tables after the step
DBnext == [stock |-> stock', details |-> details', locks |-> locks', moves |-> moves']

\* the same rows, but for the batch numbers (generate_batch_no draws a fresh
\* random number in every run)
SameButBatchNos(rows1, rows2) ==
    /\ Len(rows1) = Len(rows2)
    /\ \A i \in 1..Len(rows1) :
          [rows1[i] EXCEPT !.batch_no = None] = [rows2[i] EXCEPT !.batch_no = None]

\* the step is the end of the call of session p
Ends(p) == txn[p].active /\ ~txn'[p].active

\* while the call of session p ran, no other call changed a row of a key it
\* addresses
Undisturbed(p) ==
    \A k \in AddressedKeys(txn[p].op, txn[p].snap, txn[p].req)
                \cup AddressedKeys(txn[p].op, DB, txn[p].req) :
        RowsOf(txn[p].snap, k) = RowsOf(DB, k)

\* C27: calls on different keys are independent: the end of a call leaves
\* the stock row, the batches and the lock records of every key it does not
\* address as they are, and a call during which the others changed only
\* keys it does not address ends exactly as if it had run alone after them
\* (same result, same rows, same movement entries).
C27_KeysAreIndependent ==
    [][ \A p \in Procs :
            Ends(p) =>
                /\ \A k \in Keys \ AddressedKeys(txn[p].op, txn[p].snap, txn[p].req) :
                      RowsOf(DBnext, k) = RowsOf(DB, k)
                /\ Undisturbed(p) =>
                      LET r == Run(txn[p].op, DB, txn[p].req)
                          c == commit(DB, r)
                      IN  /\ lastOp'.code = r.code
                          /\ lastOp'.out = IF r.code = "OK" THEN r.out ELSE 0
                          /\ stock' = c.stock
                          /\ locks' = c.locks
                          /\ SameButBatchNos(details', c.details)
                          /\ SameButBatchNos(moves', c.moves) ]_vars

\* a lock_stock call on one key has committed after a receipt into the
\* other key committed while it ran
C27_Witness ==
    /\ Succeeded("lock_stock")
    /\ lastOp.stale
    /\ Len(moves) = 3
    /\ moves[1].move_type = "IN"
    /\ moves[2].move_type = "IN"
    /\ moves[3].move_type = "LOCK"
    /\ KeyOf(moves[3]) = KeyOf(moves[1])
    /\ KeyOf(moves[2]) # KeyOf(moves[1])
    /\ stock[KeyOf(moves[3])].locked_qty = 1
    /\ stock[KeyOf(moves[2])].qty = moves[2].qty
    /\ Len(locks) = 1 /\ Len(details) = 2

\* ---- C28
\* a movement entry that closes a lock record: the UNLOCK entry of
\* unlock_stock, or the OUT entry of consume_locked_stock, which carries the
\* source of the lock record (stock_out calls carry "S1")
IsClosing(move) ==
    \/ move.move_type = "UNLOCK"
    \/ move.move_type = "OUT" /\ move.source_order_no \in Sources

\* every call that committed since session p read was an unlock_stock or a
\* consume_locked_stock call
OnlyClosingsSince(p) ==
    /\ Len(moves) > Len(txn[p].snap.moves)
    /\ \A j \in (Len(txn[p].snap.moves) + 1)..Len(moves) : IsClosing(moves[j])

\* session p ends a consume_locked_stock call, or an unlock_stock call during
\* which a consume_locked_stock call committed
ClosesWithConsume(p) ==
    /\ Ends(p)
    /\ \/ txn[p].op = "consume_locked_stock"
       \/ /\ txn[p].op = "unlock_stock"
          /\ \E j \in (Len(txn[p].snap.moves) + 1)..Len(moves) : moves[j].move_type = "OUT"

\* the quantity of the lock records of key k that the step turns from LOCKED
\* to UNLOCKED
UnlockedSum(k) ==
    SumTo([i \in 1..Len(locks) |->
              IF KeyOf(locks[i]) = k /\ locks[i].status = "LOCKED"
                 /\ locks'[i].status = "UNLOCKED"
              THEN locks[i].locked_qty ELSE 0],
          Len(locks))

\* C28: a lock record is closed by one call only, also when unlock_stock and
\* consume_locked_stock calls for it overlap: a call that succeeds after
\* another such call committed while it ran writes a closing movement entry
\* only for lock records that are LOCKED when it commits and that it turns
\* to UNLOCKED or CONSUMED, takes from locked_qty what those records hold,
\* and from qty what it consumes.
C28_ClosedOnce ==
    [][ \A p \in Procs :
            (/\ ClosesWithConsume(p)
             /\ lastOp'.code = "OK"
             /\ OnlyClosingsSince(p)) =>
                \A k \in Keys :
                    /\ CountOf(NewMoves, k)
                           = TurnedCount(k, "UNLOCKED") + TurnedCount(k, "CONSUMED")
                    /\ stock'[k].locked_qty
                           = stock[k].locked_qty - UnlockedSum(k) - ConsumedSum(k)
                    /\ stock'[k].qty = stock[k].qty - ConsumedSum(k) ]_vars

\* ---- C29
\* every call that committed since session p read was a receipt
OnlyReceiptsSince(p) ==
    /\ Len(moves) > Len(txn[p].snap.moves)
    /\ \A j \in (Len(txn[p].snap.moves) + 1)..Len(moves) : moves[j].move_type = "IN"
    /\ txn[p].snap.locks = locks

\* C29: when a stock_in call commits after another stock_in call committed
\* while it ran, the on-hand quantity of its key grows by the quantity it
\* received on top of what the other received, and stays the sum of the
\* key's batches, with available_qty = qty - locked_qty.
C29_ConcurrentReceiptsAdd ==
    [][ \A p \in Procs :
            (Ends(p) /\ txn[p].op = "stock_in" /\ lastOp'.code = "OK" /\ OnlyReceiptsSince(p)) =>
                LET item == txn[p].req.items[1]
                    k == <<item.sku_id, txn[p].req.warehouse_id>>
                IN  /\ stock'[k].qty = stock[k].qty + item.qty
                    /\ BatchSum(details', k) - BatchSum(details, k) = item.qty
                    /\ (BatchSum(details, k) = stock[k].qty
                            => BatchSum(details', k) = stock'[k].qty)
                    /\ stock'[k].available_qty = stock'[k].qty - stock'[k].locked_qty ]_vars

====
